---- MODULE Spec2Model ----
(***************************************************************************)
(* State-machine model of the 3D product configurator                      *)
(* (src/configurator.js): model loading with its three candidate paths,    *)
(* the single decal slot, the shared decal material and the finish/mode    *)
(* axes; and of the page script that drives it (src/unnamed/part_000):     *)
(* text and image customization with its fee, and the cart.                *)
(*                                                                         *)
(* Conventions.  JavaScript null is 0 for object references (models,       *)
(* decals, textures) and <<0, 0>> for mesh references.  A loaded model is  *)
(* identified by the number of the loadModel call that produced it, a mesh *)
(* by <<model, position in traversal order>>, a decal mesh (and its        *)
(* geometry) and a texture by their creation number.  Roughness, metalness,*)
(* normal scale and colour multipliers are in hundredths (0.55 is 55),     *)
(* colour channels in ten-thousandths (1.0 is 10000).  Names are sequences *)
(* of characters so that String.includes is a real substring search.       *)
(***************************************************************************)
EXTENDS Integers, Sequences, FiniteSets, TLC

VARIABLES
    scene,              \* objects attached to the scene graph
    currentModel,       \* configurator.js:7
    frontPanelMesh,     \* configurator.js:8
    decalMesh,          \* configurator.js:9
    currentMode,        \* configurator.js:10
    currentFinish,      \* configurator.js:11
    decalMaterial,      \* configurator.js:43, the shared decal material
    activeTexture,      \* configurator.js:206
    models,             \* loaded glTF scenes: model |-> meshes in traversal order
    meshMaterial,       \* mesh |-> its (mutable) material
    loads,              \* one entry per loadModel call: the position of its tryLoad
    textures,           \* the CanvasTextures created so far
    decals,             \* decal meshes created so far: decal |-> how it was built
    disposedModels,     \* models whose mesh geometries/materials were disposed
    disposedGeometries, \* decal geometries that were disposed
    disposedTextures,   \* textures that were disposed
    state,              \* part_000:4, the page's state object
    textInput,          \* ui.textInput.value, as a sequence of characters
    currentUploadedImage, \* part_000:190
    uploads             \* one entry per accepted file selection: where its
                        \* FileReader / Image callbacks stand

pageVars == <<state, textInput, currentUploadedImage, uploads>>

vars == <<scene, currentModel, frontPanelMesh, decalMesh, currentMode,
          currentFinish, decalMaterial, activeTexture, models, meshMaterial,
          loads, textures, decals, disposedModels, disposedGeometries,
          disposedTextures, state, textInput, currentUploadedImage, uploads>>

-----------------------------------------------------------------------------
(* Bounds of the model *)

\* number of loadModel calls in a behaviour
MaxLoads == 2

\* number of updateTexture calls that reach the texture/geometry creation
MaxUpdates == 2

\* number of accepted file selections in a behaviour
MaxUploads == 2

\* number of entries the cart is filled to
MaxCart == 2

\* quantity up to which an entry is incremented
MaxQty == 2

-----------------------------------------------------------------------------
(* Null references *)

NoObject == 0

NoMesh == <<0, 0>>

-----------------------------------------------------------------------------
(* Strings as character sequences *)

\* String.prototype.includes
Includes(name, sub) ==
    \E i \in 1..(Len(name) - Len(sub) + 1) :
        SubSeq(name, i, i + Len(sub) - 1) = sub

sFront == <<"F", "r", "o", "n", "t">>

sPanel == <<"P", "a", "n", "e", "l">>

sBody == <<"B", "o", "d", "y">>

\* the name test of the front-panel heuristic
MatchesHeuristic(name) ==
    Includes(name, sFront) \/ Includes(name, sPanel) \/ Includes(name, sBody)

-----------------------------------------------------------------------------
(* The finish preset table *)

FinishIds == {"powder", "raw", "corten", "brushed", "painted"}

FINISH_PRESETS ==
    [ powder  |-> [ base     |-> [roughness |-> 55, metalness |-> 85, normalScale |-> 100],
                    engraved |-> [roughness |-> 68, metalness |-> 78, normalScale |-> 112, colorMult |-> 100] ],
      raw     |-> [ base     |-> [roughness |-> 65, metalness |-> 80, normalScale |-> 100],
                    engraved |-> [roughness |-> 78, metalness |-> 70, normalScale |-> 115, colorMult |-> 90] ],
      corten  |-> [ base     |-> [roughness |-> 75, metalness |-> 65, normalScale |-> 100],
                    engraved |-> [roughness |-> 88, metalness |-> 55, normalScale |-> 118, colorMult |-> 100] ],
      brushed |-> [ base     |-> [roughness |-> 35, metalness |-> 95, normalScale |-> 100],
                    engraved |-> [roughness |-> 48, metalness |-> 88, normalScale |-> 110, colorMult |-> 100] ],
      painted |-> [ base     |-> [roughness |-> 70, metalness |-> 60, normalScale |-> 100],
                    engraved |-> [roughness |-> 82, metalness |-> 52, normalScale |-> 110, colorMult |-> 100] ] ]

\* FINISH_PRESETS is an object literal, so FINISH_PRESETS[key] also finds the
\* members it inherits from Object.prototype (functions: truthy, and without
\* a base or engraved property).  Two of them stand for all.
ObjectPrototypeKeys == {"constructor", "toString"}

\* FINISH_PRESETS[finishId] is one of the five preset records
IsPreset(finishId) == finishId \in DOMAIN FINISH_PRESETS

\* FINISH_PRESETS[finishId] is truthy
HasPreset(finishId) == IsPreset(finishId) \/ finishId \in ObjectPrototypeKeys

-----------------------------------------------------------------------------
(* Colours *)

\* new THREE.Color(0xffffff)
White == <<10000, 10000, 10000>>

\* Color.multiplyScalar, s in hundredths
MultiplyScalar(c, s) ==
    <<(c[1] * s) \div 100, (c[2] * s) \div 100, (c[3] * s) \div 100>>

-----------------------------------------------------------------------------
(* The glTF files the loader can deliver *)

\* A mesh node of a glTF scene.  Its material starts with the file's colour
\* and the loader's default roughness, metalness and normal scale of 1.0.
\* box is its world-space bounding box (Box3.setFromObject, after the
\* auto-centre of the model), in thousandths; hit is what
\* raycaster.intersectObject returns for the placement ray of updateTexture,
\* which the mesh's triangles decide: whether intersects is non-empty, and
\* the first hit's point and its face normal in world space.
GltfMesh(name, color, box, hit) ==
    [name |-> name, color |-> color, box |-> box, hit |-> hit]

\* a Box3
Box3(min, max) == [min |-> min, max |-> max]

\* intersects.length > 0, with intersects[0].point and the world normal
RayHit(point, normal) == [hits |-> TRUE, point |-> point, normal |-> normal]

\* intersects.length = 0
RayMiss == [hits |-> FALSE, point |-> <<0, 0, 0>>, normal |-> <<0, 0, 0>>]

\* a scene without any mesh
EmptyScene == <<>>

\* a scene whose first mesh fails the name test (it is case-sensitive) and
\* whose second and third pass it; the ray hits the panel
PanelScene ==
    << GltfMesh(<<"f", "r", "o", "n", "t">>, <<5000, 2000, 0>>,
                Box3(<<-200, 0, -200>>, <<200, 100, 200>>), RayMiss),
       GltfMesh(<<"F", "i", "r", "e", "P", "a", "n", "e", "l">>, <<8000, 6000, 0>>,
                Box3(<<-1000, 0, 300>>, <<1000, 1000, 500>>),
                RayHit(<<800, 700, 500>>, <<0, 0, 1000>>)),
       GltfMesh(<<"B", "o", "d", "y">>, <<3000, 3000, 3000>>,
                Box3(<<-1000, 0, -500>>, <<1000, 1000, 500>>),
                RayHit(<<900, 720, 500>>, <<0, 0, 1000>>)) >>

\* a scene whose only mesh fails the name test, a ring the ray passes through
RingScene ==
    << GltfMesh(<<"R", "i", "n", "g">>, <<5000, 2000, 0>>,
                Box3(<<-400, 200, -400>>, <<400, 600, 400>>), RayMiss) >>

\* The meshes of a glTF scene, in Object3D.traverse order: the files the
\* loader delivers in Spec.
GltfScenes == {EmptyScene, PanelScene}

\* the files the loader delivers in SpecScenes
AllScenes == {EmptyScene, PanelScene, RingScene}

LoadedMaterial(color) ==
    [color |-> color, roughness |-> 100, metalness |-> 100, normalScale |-> 100]

-----------------------------------------------------------------------------
(* The state as one value, so that operations are functions on it *)

State ==
    [ scene |-> scene, currentModel |-> currentModel,
      frontPanelMesh |-> frontPanelMesh, decalMesh |-> decalMesh,
      currentMode |-> currentMode, currentFinish |-> currentFinish,
      decalMaterial |-> decalMaterial, activeTexture |-> activeTexture,
      models |-> models, meshMaterial |-> meshMaterial, loads |-> loads,
      textures |-> textures, decals |-> decals,
      disposedModels |-> disposedModels,
      disposedGeometries |-> disposedGeometries,
      disposedTextures |-> disposedTextures ]

\* the configurator's state becomes s
ConfiguratorBecomes(s) ==
    /\ scene' = s.scene
    /\ currentModel' = s.currentModel
    /\ frontPanelMesh' = s.frontPanelMesh
    /\ decalMesh' = s.decalMesh
    /\ currentMode' = s.currentMode
    /\ currentFinish' = s.currentFinish
    /\ decalMaterial' = s.decalMaterial
    /\ activeTexture' = s.activeTexture
    /\ models' = s.models
    /\ meshMaterial' = s.meshMaterial
    /\ loads' = s.loads
    /\ textures' = s.textures
    /\ decals' = s.decals
    /\ disposedModels' = s.disposedModels
    /\ disposedGeometries' = s.disposedGeometries
    /\ disposedTextures' = s.disposedTextures

\* the page's state as one value
Page ==
    [ state |-> state, textInput |-> textInput,
      currentUploadedImage |-> currentUploadedImage, uploads |-> uploads ]

PageBecomes(p) ==
    /\ state' = p.state
    /\ textInput' = p.textInput
    /\ currentUploadedImage' = p.currentUploadedImage
    /\ uploads' = p.uploads

\* a call of an exported operation or a loader callback: the page's state
\* stays as it is
Becomes(s) ==
    /\ ConfiguratorBecomes(s)
    /\ UNCHANGED pageVars

\* scene graph nodes
ModelNode(m) == <<"model", m>>

DecalNode(d) == <<"decal", d>>

LightNode(i) == <<"light", i>>

-----------------------------------------------------------------------------
(* removeDecals *)

\* removeDecals that forgets scene.remove
removeDecals_keepsAttached(s) ==
    IF s.decalMesh # NoObject
    THEN [s EXCEPT !.disposedGeometries = @ \cup {s.decalMesh},
                   !.decalMesh = NoObject]
    ELSE s

\* removeDecals that forgets geometry.dispose
removeDecals_noDispose(s) ==
    IF s.decalMesh # NoObject
    THEN [s EXCEPT !.scene = @ \ {DecalNode(s.decalMesh)},
                   !.decalMesh = NoObject]
    ELSE s

removeDecals(s) ==
    IF s.decalMesh # NoObject
    THEN [s EXCEPT !.scene = @ \ {DecalNode(s.decalMesh)},
                   !.disposedGeometries = @ \cup {s.decalMesh},
                   !.decalMesh = NoObject]
    ELSE s

-----------------------------------------------------------------------------
(* applyMaterialMode *)

\* the material a printed decal gets
PrintedMaterial(texture) ==
    [ map       |-> texture,
      alphaMap  |-> NoObject,
      color     |-> White,
      roughness |-> 40,
      metalness |-> 0 ]

\* applyMaterialMode whose printed branch forgets color.setHex(0xffffff)
applyMaterialMode_printedKeepsColor(s, texture) ==
    LET baseColor == IF s.frontPanelMesh # NoMesh
                     THEN s.meshMaterial[s.frontPanelMesh].color
                     ELSE White
        p == FINISH_PRESETS[s.currentFinish].engraved
    IN  IF s.currentMode = "engraved"
        THEN [s EXCEPT !.decalMaterial =
                 [ map       |-> NoObject,
                   alphaMap  |-> texture,
                   color     |-> IF p.colorMult # 0 /\ p.colorMult # 100
                                 THEN MultiplyScalar(baseColor, p.colorMult)
                                 ELSE baseColor,
                   roughness |-> p.roughness,
                   metalness |-> p.metalness ]]
        ELSE [s EXCEPT !.decalMaterial =
                 [PrintedMaterial(texture) EXCEPT !.color = s.decalMaterial.color]]

\* applyMaterialMode whose engraved branch forgets multiplyScalar
applyMaterialMode_ignoresColorMult(s, texture) ==
    LET baseColor == IF s.frontPanelMesh # NoMesh
                     THEN s.meshMaterial[s.frontPanelMesh].color
                     ELSE White
        p == FINISH_PRESETS[s.currentFinish].engraved
    IN  IF s.currentMode = "engraved"
        THEN [s EXCEPT !.decalMaterial =
                 [ map       |-> NoObject,
                   alphaMap  |-> texture,
                   color     |-> baseColor,
                   roughness |-> p.roughness,
                   metalness |-> p.metalness ]]
        ELSE [s EXCEPT !.decalMaterial = PrintedMaterial(texture)]

\* applyMaterialMode whose engraved branch darkens under every finish
applyMaterialMode_darkensEveryFinish(s, texture) ==
    LET baseColor == IF s.frontPanelMesh # NoMesh
                     THEN s.meshMaterial[s.frontPanelMesh].color
                     ELSE White
        p == FINISH_PRESETS[s.currentFinish].engraved
    IN  IF s.currentMode = "engraved"
        THEN [s EXCEPT !.decalMaterial =
                 [ map       |-> NoObject,
                   alphaMap  |-> texture,
                   color     |-> MultiplyScalar(baseColor, 90),
                   roughness |-> p.roughness,
                   metalness |-> p.metalness ]]
        ELSE [s EXCEPT !.decalMaterial = PrintedMaterial(texture)]

\* applyMaterialMode raises a TypeError: finishPreset is an inherited member,
\* p = finishPreset.engraved is undefined and the engraved branch reads
\* p.colorMult
applyMaterialModeThrows(s) ==
    /\ s.currentMode = "engraved"
    /\ HasPreset(s.currentFinish)
    /\ ~IsPreset(s.currentFinish)

applyMaterialMode(s, texture) ==
    LET baseColor == IF s.frontPanelMesh # NoMesh
                     THEN s.meshMaterial[s.frontPanelMesh].color
                     ELSE White
        finishPreset == IF HasPreset(s.currentFinish)
                        THEN FINISH_PRESETS[s.currentFinish]
                        ELSE FINISH_PRESETS["powder"]
        p == finishPreset.engraved
    IN  IF applyMaterialModeThrows(s)
        THEN \* the statements before the read of p.colorMult have run
             [s EXCEPT !.decalMaterial =
                 [@ EXCEPT !.map = NoObject,
                           !.alphaMap = texture,
                           !.color = baseColor]]
        ELSE
        IF s.currentMode = "engraved"
        THEN [s EXCEPT !.decalMaterial =
                 [ map       |-> NoObject,
                   alphaMap  |-> texture,
                   color     |-> IF p.colorMult # 0 /\ p.colorMult # 100
                                 THEN MultiplyScalar(baseColor, p.colorMult)
                                 ELSE baseColor,
                   roughness |-> p.roughness,
                   metalness |-> p.metalness ]]
        ELSE [s EXCEPT !.decalMaterial = PrintedMaterial(texture)]

-----------------------------------------------------------------------------
(* Decal placement: the vector arithmetic of updateTexture, in thousandths *)

Add3(a, b) == <<a[1] + b[1], a[2] + b[2], a[3] + b[3]>>

\* Box3.getCenter
GetCenter(box) ==
    << (box.min[1] + box.max[1]) \div 2,
       (box.min[2] + box.max[2]) \div 2,
       (box.min[3] + box.max[3]) \div 2 >>

\* Box3.getSize
GetSize(box) ==
    << box.max[1] - box.min[1], box.max[2] - box.min[2], box.max[3] - box.min[3] >>

\* offsetRel: 50% of the width along X, 25% of the height along Y
OffsetRel(size) == << (size[1] * 50) \div 100, (size[2] * 25) \div 100, 0 >>

\* decalSize: 0.5915 of the width, 0.845 of the height, 0.2 deep
DecalSize(size) == << (size[1] * 5915) \div 10000, (size[2] * 845) \div 1000, 200 >>

\* new THREE.Euler()
IdentityEuler == [kind |-> "euler", v |-> <<0, 0, 0>>]

\* the rotation of a helper object that looks along the normal n
LookAlong(n) == [kind |-> "lookAt", v |-> n]

\* Placement whose fallback leaves the position at the offset centre
Placement_noDepthOffset(mesh) ==
    LET center == GetCenter(mesh.box)
        size == GetSize(mesh.box)
        offsetRel == OffsetRel(size)
        default == Add3(center, offsetRel)
    IN  IF mesh.hit.hits
        THEN [ position    |-> mesh.hit.point,
               orientation |-> LookAlong(mesh.hit.normal),
               size        |-> DecalSize(size),
               fallback    |-> FALSE ]
        ELSE [ position    |-> default,
               orientation |-> IdentityEuler,
               size        |-> DecalSize(size),
               fallback    |-> TRUE ]

\* position, orientation and size handed to DecalGeometry for a target mesh
Placement(mesh) ==
    LET center == GetCenter(mesh.box)
        size == GetSize(mesh.box)
        offsetRel == OffsetRel(size)
        default == Add3(center, offsetRel)
    IN  IF mesh.hit.hits
        THEN [ position    |-> mesh.hit.point,
               orientation |-> LookAlong(mesh.hit.normal),
               size        |-> DecalSize(size),
               fallback    |-> FALSE ]
        ELSE [ position    |-> Add3(default, <<0, 0, size[3] \div 2>>),
               orientation |-> IdentityEuler,
               size        |-> DecalSize(size),
               fallback    |-> TRUE ]

-----------------------------------------------------------------------------
(* updateTexture *)

\* what a caller can pass as sourceCanvas: the texture canvas, or null.  The
\* function never reads its argument: it only hands it to the CanvasTexture
\* constructor, which stores it as the texture's image.
Sources == {"canvas", "null"}

updateTexture(s, sourceCanvas) ==
    IF s.frontPanelMesh = NoMesh
    THEN s
    ELSE LET texture == Cardinality(s.textures) + 1
             decal == Len(s.decals) + 1
             s1 == removeDecals(s)
             s2 == [s1 EXCEPT !.textures = @ \cup {texture},
                              !.activeTexture = texture]
             s3 == applyMaterialMode(s2, texture)
         IN  IF applyMaterialModeThrows(s2)
             THEN s3   \* the exception leaves updateTexture before the decal is built
             ELSE [s3 EXCEPT !.decals =
                                Append(@, [target |-> s.frontPanelMesh,
                                           frame  |-> Placement(
                                               s.models[s.frontPanelMesh[1]][s.frontPanelMesh[2]])]),
                             !.decalMesh = decal,
                             !.scene = @ \cup {DecalNode(decal)}]

-----------------------------------------------------------------------------
(* setFinish, setMode *)

\* the "re-apply decal material logic if it exists" tail of both setters
reapplyIfDecal(s) ==
    IF s.decalMesh # NoObject /\ s.activeTexture # NoObject
    THEN applyMaterialMode(s, s.activeTexture)
    ELSE s

\* setFinish that also falls back to the default mode
setFinish_resetsMode(s, finishId) ==
    IF ~HasPreset(finishId)
    THEN s
    ELSE LET preset == FINISH_PRESETS[finishId].base
             s1 == [s EXCEPT !.currentFinish = finishId, !.currentMode = "printed"]
             s2 == IF s1.frontPanelMesh # NoMesh
                   THEN [s1 EXCEPT !.meshMaterial[s1.frontPanelMesh] =
                            [@ EXCEPT !.roughness = preset.roughness,
                                      !.metalness = preset.metalness,
                                      !.normalScale = preset.normalScale]]
                   ELSE s1
         IN  reapplyIfDecal(s2)

\* setFinish without its re-apply tail
setFinish_noReapply(s, finishId) ==
    IF ~HasPreset(finishId)
    THEN s
    ELSE LET preset == FINISH_PRESETS[finishId].base
             s1 == [s EXCEPT !.currentFinish = finishId]
         IN  IF s1.frontPanelMesh # NoMesh
             THEN [s1 EXCEPT !.meshMaterial[s1.frontPanelMesh] =
                      [@ EXCEPT !.roughness = preset.roughness,
                                !.metalness = preset.metalness,
                                !.normalScale = preset.normalScale]]
             ELSE s1

\* setFinish that updates the panel material only when a decal exists
setFinish_baseOnlyWithDecal(s, finishId) ==
    IF ~HasPreset(finishId)
    THEN s
    ELSE LET preset == FINISH_PRESETS[finishId].base
             s1 == [s EXCEPT !.currentFinish = finishId]
         IN  IF s1.decalMesh # NoObject /\ s1.activeTexture # NoObject
             THEN applyMaterialMode(
                    [s1 EXCEPT !.meshMaterial[s1.frontPanelMesh] =
                        [@ EXCEPT !.roughness = preset.roughness,
                                  !.metalness = preset.metalness,
                                  !.normalScale = preset.normalScale]],
                    s1.activeTexture)
             ELSE s1

\* setFinish raises a TypeError: either preset = FINISH_PRESETS[..].base is
\* undefined when the panel material is updated, or the re-apply tail throws
setFinishThrows(s, finishId) ==
    /\ HasPreset(finishId)
    /\ \/ s.frontPanelMesh # NoMesh /\ ~IsPreset(finishId)
       \/ /\ s.decalMesh # NoObject /\ s.activeTexture # NoObject
          /\ applyMaterialModeThrows([s EXCEPT !.currentFinish = finishId])

setFinish(s, finishId) ==
    IF ~HasPreset(finishId)
    THEN s
    ELSE LET preset == FINISH_PRESETS[finishId].base
             s1 == [s EXCEPT !.currentFinish = finishId]
             s2 == IF s1.frontPanelMesh # NoMesh
                   THEN [s1 EXCEPT !.meshMaterial[s1.frontPanelMesh] =
                            [@ EXCEPT !.roughness = preset.roughness,
                                      !.metalness = preset.metalness,
                                      !.normalScale = preset.normalScale]]
                   ELSE s1
         IN  IF s1.frontPanelMesh # NoMesh /\ ~IsPreset(finishId)
             THEN s1   \* the read of preset.roughness throws
             ELSE reapplyIfDecal(s2)

\* setMode without its re-apply tail
setMode_noReapply(s, mode) ==
    [s EXCEPT !.currentMode = mode]

\* setMode that re-applies the material without looking for a decal
setMode_alwaysReapplies(s, mode) ==
    applyMaterialMode([s EXCEPT !.currentMode = mode], s.activeTexture)

setMode(s, mode) ==
    reapplyIfDecal([s EXCEPT !.currentMode = mode])

\* setMode raises a TypeError in its re-apply tail
setModeThrows(s, mode) ==
    /\ s.decalMesh # NoObject /\ s.activeTexture # NoObject
    /\ applyMaterialModeThrows([s EXCEPT !.currentMode = mode])

-----------------------------------------------------------------------------
(* The page's handlers that deliver mode and finish changes *)

\* triggerTextureUpdate(): redraws the texture canvas from the text and the
\* uploaded image, then hands the canvas to updateTexture
triggerTextureUpdate(s) ==
    updateTexture(s, "canvas")

\* click on a mode button whose data-mode is mode
modeButtonClick(s, mode) ==
    IF setModeThrows(s, mode)
    THEN setMode(s, mode)
    ELSE triggerTextureUpdate(setMode(s, mode))

\* change of the finish select to value
finishSelectChange(s, value) ==
    setFinish(s, value)

-----------------------------------------------------------------------------
(* loadModel, tryLoad and the loader's callbacks *)

fileNameOf(modelKey) ==
    IF modelKey = "radiant" THEN "Radiant3D.glb" ELSE "Bloom3D.glb"

\* the candidate paths of one loadModel call
paths(fileName) ==
    << <<"./public/models/", fileName>>,
       <<"/models/", fileName>>,
       <<"models/", fileName>> >>

\* tryLoad(index) of loadModel call c: index is 0-based as in the source, and
\* nPaths is paths.length of the call's closure
tryLoad(s, c, index) ==
    IF index >= s.loads[c].nPaths
    THEN [s EXCEPT !.loads[c].status = "failed", !.loads[c].index = index]
    ELSE [s EXCEPT !.loads[c].status = "loading", !.loads[c].index = index]

\* the mesh materials left once those of model m are disposed and the model
\* object is dropped
WithoutModel(materials, m) ==
    [mesh \in { x \in DOMAIN materials : x[1] # m } |-> materials[mesh]]

\* loadModel that forgets frontPanelMesh = null
loadModel_keepsTarget(s, modelKey) ==
    LET s1 == IF s.currentModel # NoObject
              THEN removeDecals(
                     [s EXCEPT !.scene = @ \ {ModelNode(s.currentModel)},
                               !.disposedModels = @ \cup {s.currentModel},
                               !.currentModel = NoObject])
              ELSE s
        c == Len(s.loads) + 1
        s2 == [s1 EXCEPT !.loads = Append(@, [nPaths |-> Len(paths(fileNameOf(modelKey))),
                                              index |-> 0,
                                              status |-> "idle"])]
    IN  tryLoad(s2, c, 0)

loadModel(s, modelKey) ==
    LET s1 == IF s.currentModel # NoObject
              THEN removeDecals(
                     [s EXCEPT !.scene = @ \ {ModelNode(s.currentModel)},
                               !.disposedModels = @ \cup {s.currentModel},
                               !.meshMaterial = WithoutModel(@, s.currentModel),
                               !.currentModel = NoObject,
                               !.frontPanelMesh = NoMesh])
              ELSE s
        c == Len(s.loads) + 1
        s2 == [s1 EXCEPT !.loads = Append(@, [nPaths |-> Len(paths(fileNameOf(modelKey))),
                                              index |-> 0,
                                              status |-> "idle"])]
    IN  tryLoad(s2, c, 0)

\* a name heuristic that assigns on every match, so that the last match wins
RECURSIVE heuristicTraverse_lastMatchWins(_, _, _, _)
heuristicTraverse_lastMatchWins(fp, m, meshes, i) ==
    IF i > Len(meshes)
    THEN fp
    ELSE heuristicTraverse_lastMatchWins(
           IF MatchesHeuristic(meshes[i].name) THEN <<m, i>> ELSE fp,
           m, meshes, i + 1)

\* first traverse of the success callback: the name heuristic, which only
\* assigns while frontPanelMesh is still null
RECURSIVE heuristicTraverse(_, _, _, _)
heuristicTraverse(fp, m, meshes, i) ==
    IF i > Len(meshes)
    THEN fp
    ELSE heuristicTraverse(
           IF fp = NoMesh /\ MatchesHeuristic(meshes[i].name) THEN <<m, i>> ELSE fp,
           m, meshes, i + 1)

\* second traverse: the first mesh, if frontPanelMesh is still null
RECURSIVE fallbackTraverse(_, _, _, _)
fallbackTraverse(fp, m, meshes, i) ==
    IF i > Len(meshes)
    THEN fp
    ELSE fallbackTraverse(IF fp = NoMesh THEN <<m, i>> ELSE fp, m, meshes, i + 1)

\* the success callback of call c's request, delivering the glTF scene gltf
onLoad(s, c, gltf) ==
    LET fp1 == heuristicTraverse(s.frontPanelMesh, c, gltf, 1)
        fp2 == IF fp1 = NoMesh THEN fallbackTraverse(fp1, c, gltf, 1) ELSE fp1
    IN  [s EXCEPT !.currentModel = c,
                  !.models = @ @@ (c :> gltf),
                  !.meshMaterial =
                      @ @@ [mesh \in { <<c, i>> : i \in 1..Len(gltf) } |->
                               LoadedMaterial(gltf[mesh[2]].color)],
                  !.scene = @ \cup {ModelNode(c)},
                  !.frontPanelMesh = fp2,
                  !.loads[c].status = "loaded"]

\* an error callback that skips the next candidate path
onError_skipsPath(s, c) ==
    tryLoad(s, c, s.loads[c].index + 2)

\* the error callback of call c's request
onError(s, c) ==
    tryLoad(s, c, s.loads[c].index + 1)

-----------------------------------------------------------------------------
(* The page script: price, customization fee, uploads and cart.  Each        *)
(* handler is split into what it does to the page's state (here) and the     *)
(* configurator calls it makes (in the actions below).                       *)

Sizes == {"s-740", "xl-1000"}

PRICES ==
    [ radiant |-> [ s |-> 3500, xl |-> 4625 ],
      bloom   |-> [ s |-> 3500, xl |-> 4625 ] ]

\* PRICES[model][size]
PriceOf(model, size) ==
    IF size = "s-740" THEN PRICES[model].s ELSE PRICES[model].xl

CUSTOMIZATION_COST == 350

\* String.prototype.trim on a sequence of characters
RECURSIVE TrimStart(_)
TrimStart(text) ==
    IF Len(text) > 0 /\ Head(text) = " " THEN TrimStart(Tail(text)) ELSE text

RECURSIVE TrimEnd(_)
TrimEnd(text) ==
    IF Len(text) > 0 /\ text[Len(text)] = " "
    THEN TrimEnd(SubSeq(text, 1, Len(text) - 1))
    ELSE text

Trim(text) == TrimEnd(TrimStart(text))

updatePrice(p) ==
    [p EXCEPT !.state.basePrice = PriceOf(p.state.model, p.state.size)]

checkCustomizationFee(p) ==
    LET hasText == Len(Trim(p.textInput)) > 0
        isCustomized == hasText \/ p.currentUploadedImage # NoObject
    IN  updatePrice([p EXCEPT !.state.customizationFee =
                                  IF isCustomized THEN CUSTOMIZATION_COST ELSE 0])

\* the first statement of triggerTextureUpdate(newImage)
keepNewImage(p, newImage) ==
    IF newImage # NoObject
    THEN [p EXCEPT !.currentUploadedImage = newImage]
    ELSE p

\* input event on the text field, which now holds value: the page's state
\* before triggerTextureUpdate and after checkCustomizationFee
textInputTyped(p, value) == [p EXCEPT !.textInput = value]

\* click on Reset Customization, up to currentUploadedImage = null
resetCustomization(p) ==
    [p EXCEPT !.textInput = <<>>, !.currentUploadedImage = NoObject]

\* change event of the file input with a file within the size limit: a
\* FileReader is started.  (A larger file only clears the input.)
imageInputChange(p) ==
    [p EXCEPT !.uploads = Append(@, "reading")]

\* reader.onload of upload u: an Image is created and its src set
readerOnload(p, u) ==
    [p EXCEPT !.uploads[u] = "decoding"]

\* img.onload of upload u, up to the first statement of
\* triggerTextureUpdate(img); the image is identified by its upload
imgOnload(p, u) ==
    keepNewImage([p EXCEPT !.uploads[u] = "done"], u)

\* change of the model select
modelSelectChange(p, modelKey) ==
    updatePrice([p EXCEPT !.state.model = modelKey])

\* change of the size select
sizeSelectChange(p, size) ==
    updatePrice([p EXCEPT !.state.size = size])

\* the cart entry addToCart looks for: same model, size, text and
\* customization flag (Array.prototype.find: the first one, 0 if none)
ExistingItem(p) ==
    LET same == { i \in 1..Len(p.state.cart) :
                    /\ p.state.cart[i].model = p.state.model
                    /\ p.state.cart[i].size = p.state.size
                    /\ p.state.cart[i].text = p.textInput
                    /\ p.state.cart[i].hasCustomization = (p.state.customizationFee > 0) }
    IN  IF same = {} THEN 0 ELSE CHOOSE i \in same : \A j \in same : i <= j

\* addToCart that always pushes a new entry
addToCart_alwaysPushes(p) ==
    [p EXCEPT !.state.cart =
        Append(@, [ model |-> p.state.model,
                    size |-> p.state.size,
                    price |-> p.state.basePrice + p.state.customizationFee,
                    hasCustomization |-> p.state.customizationFee > 0,
                    text |-> p.textInput,
                    qty |-> 1 ])]

addToCart(p) ==
    IF ExistingItem(p) # 0
    THEN [p EXCEPT !.state.cart[ExistingItem(p)].qty = @ + 1]
    ELSE [p EXCEPT !.state.cart =
             Append(@, [ model |-> p.state.model,
                         size |-> p.state.size,
                         price |-> p.state.basePrice + p.state.customizationFee,
                         hasCustomization |-> p.state.customizationFee > 0,
                         text |-> p.textInput,
                         qty |-> 1 ])]

\* window.updateQty(index, delta); index counts from 0.  Outside the cart
\* state.cart[index] is undefined and item.qty raises a TypeError.
updateQty(p, index, delta) ==
    IF index + 1 \notin 1..Len(p.state.cart)
    THEN p
    ELSE [p EXCEPT !.state.cart[index + 1].qty =
                       IF @ + delta < 1 THEN 1 ELSE @ + delta]

\* window.removeItem(index): state.cart.splice(index, 1) for an index from 0
RemoveAt(cart, i) ==
    SubSeq(cart, 1, i - 1) \o SubSeq(cart, i + 1, Len(cart))

removeItem(p, index) ==
    IF index + 1 \notin 1..Len(p.state.cart)
    THEN p
    ELSE [p EXCEPT !.state.cart = RemoveAt(@, index + 1)]

-----------------------------------------------------------------------------
(* Initial state: the module's top-level state after init() *)

Init ==
    /\ scene = {LightNode(1), LightNode(2), LightNode(3)}
    /\ currentModel = NoObject
    /\ frontPanelMesh = NoMesh
    /\ decalMesh = NoObject
    /\ currentMode = "printed"
    /\ currentFinish = "powder"
    /\ decalMaterial = [map |-> NoObject, alphaMap |-> NoObject, color |-> White,
                        roughness |-> 100, metalness |-> 0]
    /\ activeTexture = NoObject
    /\ models = <<>>
    /\ meshMaterial = <<>>
    /\ loads = <<>>
    /\ textures = {}
    /\ decals = <<>>
    /\ disposedModels = {}
    /\ disposedGeometries = {}
    /\ disposedTextures = {}
    /\ state = [ model |-> "radiant", size |-> "s-740", basePrice |-> 3500,
                 customizationFee |-> 0, cart |-> <<>> ]
    /\ textInput = <<>>
    /\ currentUploadedImage = NoObject
    /\ uploads = <<>>

-----------------------------------------------------------------------------
(* Actions: the exported operations and the loader's callbacks *)

ModelKeys == {"radiant", "bloom"}

\* the two values of the mode enum
Modes == {"printed", "engraved"}

\* arguments a caller can pass to setMode: the two modes and one other string
ModeArgs == {"printed", "engraved", "embossed"}

\* arguments a caller passes to setFinish here: two of the presets (one of
\* them the initial finish) and one string that is no preset
FinishArgs == {"powder", "raw", "chrome"}

LoadModel(modelKey) ==
    /\ Len(loads) < MaxLoads
    /\ Becomes(loadModel(State, modelKey))

LoadSuccess(c, gltf) ==
    /\ loads[c].status = "loading"
    /\ Becomes(onLoad(State, c, gltf))

LoadFailure(c) ==
    /\ loads[c].status = "loading"
    /\ Becomes(onError(State, c))

UpdateTexture(sourceCanvas) ==
    /\ frontPanelMesh # NoMesh => Cardinality(textures) < MaxUpdates
    /\ Becomes(updateTexture(State, sourceCanvas))

SetFinish(finishId) ==
    Becomes(setFinish(State, finishId))

SetMode(mode) ==
    Becomes(setMode(State, mode))

Next ==
    \/ \E modelKey \in ModelKeys : LoadModel(modelKey)
    \/ \E c \in DOMAIN loads, gltf \in GltfScenes : LoadSuccess(c, gltf)
    \/ \E c \in DOMAIN loads : LoadFailure(c)
    \/ \E sourceCanvas \in Sources : UpdateTexture(sourceCanvas)
    \/ \E finishId \in FinishArgs : SetFinish(finishId)
    \/ \E mode \in ModeArgs : SetMode(mode)

Spec == Init /\ [][Next]_vars

\* The same system with a caller that also passes setFinish strings that name
\* inherited members of the preset table.
SetFinishInherited(finishId) ==
    /\ finishId \in ObjectPrototypeKeys
    /\ Becomes(setFinish(State, finishId))

NextOpenFinish ==
    \/ Next
    \/ \E finishId \in ObjectPrototypeKeys : SetFinishInherited(finishId)

SpecOpenFinish == Init /\ [][NextOpenFinish]_vars

\* The same system driven through the page's mode buttons and finish select
\* as well.  The buttons carry the two modes, the select's options are presets.
ModeButtonClick(mode) ==
    /\ frontPanelMesh # NoMesh => Cardinality(textures) < MaxUpdates
    /\ Becomes(modeButtonClick(State, mode))

FinishSelectChange(value) ==
    /\ value \in FinishIds
    /\ Becomes(finishSelectChange(State, value))

NextUI ==
    \/ Next
    \/ \E mode \in {"printed", "engraved"} : ModeButtonClick(mode)
    \/ \E value \in FinishArgs : FinishSelectChange(value)

SpecUI == Init /\ [][NextUI]_vars

\* The system with a loader that can also deliver a file whose only mesh the
\* placement ray misses, and a caller that keeps the initial finish.
LoadSuccessAny(c, gltf) ==
    /\ loads[c].status = "loading"
    /\ Becomes(onLoad(State, c, gltf))

NextScenes ==
    \/ \E modelKey \in ModelKeys : LoadModel(modelKey)
    \/ \E c \in DOMAIN loads, gltf \in AllScenes : LoadSuccessAny(c, gltf)
    \/ \E c \in DOMAIN loads : LoadFailure(c)
    \/ \E sourceCanvas \in Sources : UpdateTexture(sourceCanvas)
    \/ \E mode \in Modes : SetMode(mode)

SpecScenes == Init /\ [][NextScenes]_vars

\* the callback of call c's pending request: success with some file, or error
Callback(c) ==
    \/ \E gltf \in AllScenes : LoadSuccessAny(c, gltf)
    \/ LoadFailure(c)

\* The loading part of the system alone, with a loader that eventually calls
\* back on every request.
NextLoads ==
    \/ \E modelKey \in ModelKeys : LoadModel(modelKey)
    \/ \E c \in DOMAIN loads, gltf \in AllScenes : LoadSuccessAny(c, gltf)
    \/ \E c \in DOMAIN loads : LoadFailure(c)

SpecLoadsFair ==
    /\ Init
    /\ [][NextLoads]_vars
    /\ \A c \in 1..MaxLoads : WF_vars(c \in DOMAIN loads /\ Callback(c))

-----------------------------------------------------------------------------
(* Actions of the page: its event handlers and upload callbacks *)

\* what the user can have in the text field: nothing, a blank, a letter
TextValues == { <<>>, <<" ">>, <<"A">> }

\* the finish select's value at startup
InitialFinishValues == {"powder", "raw"}

\* setupEventListeners has run: the startup handler calls loadModel before it
ListenersSetUp == Len(loads) > 0

\* the updateTexture call at the end of triggerTextureUpdate raises (the
\* TypeError of applyMaterialMode), which ends the handler at that point
TriggerThrows ==
    frontPanelMesh # NoMesh /\ applyMaterialModeThrows(State)

\* the rest of a handler from its triggerTextureUpdate(newImage) call on:
\* the canvas is redrawn and handed to updateTexture, then
\* checkCustomizationFee runs
TriggerThenCheckFee(p, newImage) ==
    /\ frontPanelMesh # NoMesh => Cardinality(textures) < MaxUpdates
    /\ ConfiguratorBecomes(triggerTextureUpdate(State))
    /\ PageBecomes(IF TriggerThrows
                   THEN keepNewImage(p, newImage)
                   ELSE checkCustomizationFee(keepNewImage(p, newImage)))

\* the DOMContentLoaded handler, after init: loadModel, setupEventListeners,
\* updatePrice, setFinish
DOMContentLoaded(finishValue) ==
    /\ ~ListenersSetUp
    /\ ConfiguratorBecomes(setFinish(loadModel(State, state.model), finishValue))
    /\ PageBecomes(updatePrice(Page))

ModelSelectChange(modelKey) ==
    /\ ListenersSetUp
    /\ Len(loads) < MaxLoads
    /\ ConfiguratorBecomes(loadModel(State, modelKey))
    /\ PageBecomes(modelSelectChange(Page, modelKey))

SizeSelectChange(size) ==
    /\ ListenersSetUp
    /\ PageBecomes(sizeSelectChange(Page, size))
    /\ ConfiguratorBecomes(State)

TextInput(value) ==
    /\ ListenersSetUp
    /\ TriggerThenCheckFee(textInputTyped(Page, value), NoObject)

ResetCustomizationClick ==
    /\ ListenersSetUp
    /\ TriggerThenCheckFee(resetCustomization(Page), NoObject)

ImageInputChange ==
    /\ ListenersSetUp
    /\ Len(uploads) < MaxUploads
    /\ PageBecomes(imageInputChange(Page))
    /\ ConfiguratorBecomes(State)

ReaderOnload(u) ==
    /\ uploads[u] = "reading"
    /\ PageBecomes(readerOnload(Page, u))
    /\ ConfiguratorBecomes(State)

ImgOnload(u) ==
    /\ uploads[u] = "decoding"
    /\ TriggerThenCheckFee([Page EXCEPT !.uploads[u] = "done"], u)

AddToCart ==
    /\ ListenersSetUp
    /\ \/ ExistingItem(Page) # 0 /\ state.cart[ExistingItem(Page)].qty < MaxQty
       \/ ExistingItem(Page) = 0 /\ Len(state.cart) < MaxCart
    /\ PageBecomes(addToCart(Page))
    /\ ConfiguratorBecomes(State)

\* click on a rendered entry's minus or plus button
UpdateQty(index, delta) ==
    /\ index + 1 \in 1..Len(state.cart)
    /\ state.cart[index + 1].qty + delta <= MaxQty
    /\ PageBecomes(updateQty(Page, index, delta))
    /\ ConfiguratorBecomes(State)

\* click on a rendered entry's remove button
RemoveItem(index) ==
    /\ index + 1 \in 1..Len(state.cart)
    /\ PageBecomes(removeItem(Page, index))
    /\ ConfiguratorBecomes(State)

\* The page with its selection and customization handlers and a loader
\* that calls back.
NextUploads ==
    \/ \E finishValue \in InitialFinishValues : DOMContentLoaded(finishValue)
    \/ \E modelKey \in ModelKeys : ModelSelectChange(modelKey)
    \/ \E size \in Sizes : SizeSelectChange(size)
    \/ \E c \in DOMAIN loads, gltf \in GltfScenes : LoadSuccess(c, gltf)
    \/ \E c \in DOMAIN loads : LoadFailure(c)
    \/ \E value \in TextValues : TextInput(value)
    \/ ResetCustomizationClick
    \/ ImageInputChange
    \/ \E u \in DOMAIN uploads : ReaderOnload(u)
    \/ \E u \in DOMAIN uploads : ImgOnload(u)

SpecUploads == Init /\ [][NextUploads]_vars

\* what the user types while filling the cart: nothing, or a letter
CartTextValues == { <<>>, <<"A">> }

\* The page with its customization and cart handlers, for a user who keeps
\* the initial model and size, while the loader has not called back.
NextCart ==
    \/ \E finishValue \in InitialFinishValues : DOMContentLoaded(finishValue)
    \/ \E value \in CartTextValues : TextInput(value)
    \/ ResetCustomizationClick
    \/ ImageInputChange
    \/ \E u \in DOMAIN uploads : ReaderOnload(u)
    \/ \E u \in DOMAIN uploads : ImgOnload(u)
    \/ AddToCart
    \/ \E index \in 0..(MaxCart - 1), delta \in {-1, 1} : UpdateQty(index, delta)
    \/ \E index \in 0..(MaxCart - 1) : RemoveItem(index)

SpecCart == Init /\ [][NextCart]_vars

-----------------------------------------------------------------------------
(* Derived notions used by the properties *)

\* the decal meshes attached to the scene
DecalsInScene == { d \in 1..Len(decals) : DecalNode(d) \in scene }

-----------------------------------------------------------------------------
(* Properties *)

\* C1: in every reachable state at most one decal mesh is attached to the
\* scene, and an attached decal mesh is the one decalMesh references.
C1_AtMostOneDecal ==
    /\ Cardinality(DecalsInScene) <= 1
    /\ \A d \in DecalsInScene : d = decalMesh

\* C1 witness: a second decal has replaced the first and is attached.
C1_Witness ==
    /\ Len(decals) >= 2
    /\ decalMesh = Len(decals)
    /\ DecalNode(decalMesh) \in scene

\* C2: every updateTexture call made with a target mesh resolved leaves
\* exactly one decal attached, namely the new one, every earlier decal
\* geometry detached and disposed, and the new geometry not disposed.
C2_ReplaceLeavesOneDecal ==
    [][ (frontPanelMesh # NoMesh /\ \E src \in Sources : UpdateTexture(src))
        => /\ decalMesh' = Len(decals')
           /\ Len(decals') = Len(decals) + 1
           /\ DecalsInScene' = {decalMesh'}
           /\ decalMesh' \notin disposedGeometries'
           /\ \A d \in 1..Len(decals) : /\ d \in disposedGeometries'
                                        /\ DecalNode(d) \notin scene' ]_vars

\* C2 witness: after two updateTexture calls the first geometry is disposed
\* and the second is the attached one.
C2_Witness ==
    /\ Len(decals) >= 2
    /\ disposedGeometries = 1..(Len(decals) - 1)
    /\ DecalsInScene = {Len(decals)}

\* C3 as stated: in every reachable state exactly one of map and alphaMap is
\* non-null, map when the mode is printed and alphaMap when it is engraved.
C3_ExactlyOneChannelAlways ==
    /\ (decalMaterial.map # NoObject) # (decalMaterial.alphaMap # NoObject)
    /\ currentMode = "printed" => decalMaterial.map # NoObject
    /\ currentMode = "engraved" => decalMaterial.alphaMap # NoObject

\* C3 amended: both channels are null until the first texture is applied and
\* exactly one is non-null from then on; while a decal is attached the
\* channel is the one the current mode selects, alphaMap when the mode is
\* engraved and map otherwise.
C3_OneChannelOnceApplied ==
    /\ activeTexture = NoObject =>
          decalMaterial.map = NoObject /\ decalMaterial.alphaMap = NoObject
    /\ activeTexture # NoObject =>
          (decalMaterial.map # NoObject) # (decalMaterial.alphaMap # NoObject)
    /\ decalMesh # NoObject =>
          IF currentMode = "engraved"
          THEN decalMaterial.alphaMap # NoObject /\ decalMaterial.map = NoObject
          ELSE decalMaterial.map # NoObject /\ decalMaterial.alphaMap = NoObject

\* C3 witness: a decal is attached in engraved mode and the texture sits in
\* the alpha channel.
C3_Witness ==
    /\ decalMesh # NoObject
    /\ currentMode = "engraved"
    /\ decalMaterial.alphaMap = activeTexture
    /\ decalMaterial.map = NoObject

\* C4: every loadModel call returns with no decal attached and no target
\* mesh; the target mesh is never a mesh whose geometry was disposed, and no
\* decal is built against, or stays attached to, such a mesh.
C4_ReloadIsHardReset ==
    /\ [][ (\E modelKey \in ModelKeys : LoadModel(modelKey))
           => /\ frontPanelMesh' = NoMesh
              /\ decalMesh' = NoObject
              /\ DecalsInScene' = {} ]_vars
    /\ [][ Len(decals') > Len(decals)
           => decals'[Len(decals')].target[1] \notin disposedModels' ]_vars
    /\ [] /\ frontPanelMesh # NoMesh => frontPanelMesh[1] \notin disposedModels
          /\ \A d \in DecalsInScene : decals[d].target[1] \notin disposedModels

\* C4 witness: loadModel was called on a loaded model that carried a decal:
\* the model's meshes and the decal geometry are disposed, the new request is
\* in flight, and neither target mesh nor decal remains.
C4_Witness ==
    /\ disposedModels # {}
    /\ disposedGeometries # {}
    /\ \E c \in DOMAIN loads : loads[c].status = "loading"
    /\ currentModel = NoObject
    /\ frontPanelMesh = NoMesh
    /\ decalMesh = NoObject

\* C5: every texture other than the active one has been disposed.
C5_NoTextureLeak ==
    \A t \in textures : t # activeTexture => t \in disposedTextures

\* C6: updateTexture(null) made while a decal is attached leaves no decal
\* attached.
C6_NullSourceClearsDecal ==
    [][ (decalMesh # NoObject /\ UpdateTexture("null"))
        => decalMesh' = NoObject /\ DecalsInScene' = {} ]_vars

\* C7: applying the material in printed mode, to any reachable state, under
\* any finish and with any texture, yields colour texture = the texture, alpha
\* texture = null, base colour = white, roughness = 0.4 and metalness = 0.0.
C7_PrintedMaterial ==
    \A f \in FinishIds, t \in textures :
        applyMaterialMode([State EXCEPT !.currentMode = "printed",
                                        !.currentFinish = f], t).decalMaterial
          = [ map |-> t, alphaMap |-> NoObject, color |-> <<10000, 10000, 10000>>,
              roughness |-> 40, metalness |-> 0 ]

\* C7 witness: the material was last applied in engraved mode under the raw
\* finish (darkened colour, texture in the alpha channel), the previous state
\* a printed application has to overwrite.
C7_Witness ==
    /\ textures # {}
    /\ decalMaterial.alphaMap # NoObject
    /\ decalMaterial.color # White
    /\ decalMaterial.roughness = FINISH_PRESETS["raw"].engraved.roughness

\* C8: applying the material in engraved mode, to any reachable state with a
\* target mesh, under any finish f and with any texture, yields colour
\* texture = null, alpha texture = the texture, base colour = the panel
\* material's colour times f's colour multiplier, and f's engraved roughness
\* and metalness; and whenever a decal exists there is a target mesh to take
\* the panel colour from.
C8_EngravedMaterial ==
    /\ decalMesh # NoObject => frontPanelMesh # NoMesh
    /\ frontPanelMesh # NoMesh =>
         \A f \in FinishIds, t \in textures :
            applyMaterialMode([State EXCEPT !.currentMode = "engraved",
                                            !.currentFinish = f], t).decalMaterial
              = [ map |-> NoObject, alphaMap |-> t,
                  color |-> MultiplyScalar(meshMaterial[frontPanelMesh].color,
                                           FINISH_PRESETS[f].engraved.colorMult),
                  roughness |-> FINISH_PRESETS[f].engraved.roughness,
                  metalness |-> FINISH_PRESETS[f].engraved.metalness ]

\* C8 witness: the material was last applied in printed mode, a target mesh
\* is resolved and a decal is attached under the raw finish.
C8_Witness ==
    /\ decalMesh # NoObject
    /\ frontPanelMesh # NoMesh
    /\ currentFinish = "raw"
    /\ decalMaterial = PrintedMaterial(activeTexture)

\* C9: setFinish, with any argument, never changes the mode; setMode, with
\* any argument, never changes the finish identifier nor any mesh material.
C9_AxesIndependent ==
    /\ \A f \in FinishIds \cup FinishArgs :
          setFinish(State, f).currentMode = currentMode
    /\ \A m \in ModeArgs :
          /\ setMode(State, m).currentFinish = currentFinish
          /\ setMode(State, m).meshMaterial = meshMaterial

\* C9 witness: both axes have left their defaults with a decal attached and
\* the panel material carrying the raw finish.
C9_Witness ==
    /\ currentMode = "engraved"
    /\ currentFinish = "raw"
    /\ decalMesh # NoObject
    /\ meshMaterial[frontPanelMesh].roughness = FINISH_PRESETS["raw"].base.roughness

\* C10: from any reachable state with a decal, for all modes A and B and
\* every preset F, setMode(A); setFinish(F); setMode(B); setFinish(F) ends in
\* the same state as setMode(B); setFinish(F).
C10_RoundTrip ==
    decalMesh # NoObject =>
        \A A \in Modes, B \in Modes, F \in FinishIds :
            setFinish(setMode(setFinish(setMode(State, A), F), B), F)
              = setFinish(setMode(State, B), F)

\* C10 witness: a decal is attached while the mode is engraved and the finish
\* is the initial one, so both sequences have material and panel to change.
C10_Witness ==
    /\ decalMesh # NoObject
    /\ currentMode = "engraved"
    /\ currentFinish = "powder"
    /\ decalMaterial.alphaMap = activeTexture

-----------------------------------------------------------------------------
(* Error handling and frame properties *)

\* identifiers that are none of the five configured presets
UnknownFinishIds == {"chrome"} \cup ObjectPrototypeKeys

\* C11: setFinish with an identifier that is not a configured preset raises
\* no error and leaves the whole state (finish, panel material, decal
\* material, mode, decal) unchanged.
C11_UnknownFinishIgnored ==
    \A finishId \in UnknownFinishIds :
        /\ ~setFinishThrows(State, finishId)
        /\ setFinish(State, finishId) = State

NoRegeneration(s) ==
    /\ s.decalMesh = decalMesh
    /\ s.decals = decals
    /\ s.textures = textures
    /\ s.disposedGeometries = disposedGeometries
    /\ s.disposedModels = disposedModels
    /\ s.disposedTextures = disposedTextures
    /\ s.scene = scene

\* C13: setMode, setFinish, the mode-button click and the finish-select
\* change regenerate no geometry: the decal mesh and its geometry are the
\* same before and after, nothing is disposed, the scene is unchanged.
C13_ModeFinishEventsKeepGeometry ==
    /\ \A mode \in ModeArgs : NoRegeneration(setMode(State, mode))
    /\ \A finishId \in FinishArgs : NoRegeneration(setFinish(State, finishId))
    /\ \A value \in FinishIds : NoRegeneration(finishSelectChange(State, value))
    /\ \A mode \in Modes :
          (frontPanelMesh # NoMesh => Cardinality(textures) < MaxUpdates)
             => NoRegeneration(modeButtonClick(State, mode))

\* C14: with a target mesh resolved, setFinish(f) for a configured preset f
\* sets the panel material's roughness, metalness and normal scale to f's
\* base parameters, with or without a decal or an active texture, and leaves
\* the panel material's colour alone.
C14_FinishSetsPanelMaterial ==
    frontPanelMesh # NoMesh =>
        \A f \in FinishIds :
            LET after == setFinish(State, f).meshMaterial[frontPanelMesh]
            IN  /\ after.roughness = FINISH_PRESETS[f].base.roughness
                /\ after.metalness = FINISH_PRESETS[f].base.metalness
                /\ after.normalScale = FINISH_PRESETS[f].base.normalScale
                /\ after.color = meshMaterial[frontPanelMesh].color

\* C14 witness: the raw finish was set on a resolved target mesh that never
\* carried a decal or a texture.
C14_Witness ==
    /\ frontPanelMesh # NoMesh
    /\ decalMesh = NoObject
    /\ activeTexture = NoObject
    /\ currentFinish = "raw"
    /\ meshMaterial[frontPanelMesh].roughness = FINISH_PRESETS["raw"].base.roughness
    /\ meshMaterial[frontPanelMesh].metalness = FINISH_PRESETS["raw"].base.metalness

\* mode and finish identifier are the same in s as in the current state
SameSelections(s) ==
    s.currentMode = currentMode /\ s.currentFinish = currentFinish

\* C15: the stored mode is always printed or engraved, whatever argument
\* setMode is given; setFinish leaves the mode unchanged, and updateTexture,
\* loadModel and the load callbacks leave both mode and finish identifier
\* unchanged.
C15_ModeStaysInEnum ==
    /\ currentMode \in Modes
    /\ \A mode \in ModeArgs : setMode(State, mode).currentMode \in Modes
    /\ \A finishId \in FinishArgs : setFinish(State, finishId).currentMode = currentMode
    /\ \A sourceCanvas \in Sources : SameSelections(updateTexture(State, sourceCanvas))
    /\ \A modelKey \in ModelKeys : SameSelections(loadModel(State, modelKey))
    /\ \A c \in DOMAIN loads :
          loads[c].status = "loading" =>
              /\ SameSelections(onError(State, c))
              /\ \A gltf \in GltfScenes : SameSelections(onLoad(State, c, gltf))

\* call c is waiting for the callback of its last candidate path
OnLastPath(c) ==
    /\ loads[c].status = "loading"
    /\ loads[c].index + 1 >= loads[c].nPaths

\* C16: when the last candidate path of the most recent loadModel call
\* fails, the state is left with no target mesh and no decal, whatever
\* earlier calls' loads did in between; a loadModel call made after the
\* failure starts a new load, whose success resolves a target mesh.
C16_AllPathsFailedLeavesNoTarget ==
    LET c == Len(loads)
    IN  (c > 0 /\ OnLastPath(c)) =>
            LET s == onError(State, c)
            IN  /\ s.loads[c].status = "failed"
                /\ s.frontPanelMesh = NoMesh
                /\ s.decalMesh = NoObject
                /\ \A modelKey \in ModelKeys :
                      LET r == loadModel(s, modelKey)
                      IN  /\ r.loads[c + 1].status = "loading"
                          /\ onLoad(r, c + 1, PanelScene).frontPanelMesh # NoMesh

\* the decal colour that applying engraved mode under finish f gives in the
\* current state
EngravedColor(f) ==
    applyMaterialMode([State EXCEPT !.currentMode = "engraved",
                                    !.currentFinish = f],
                      activeTexture).decalMaterial.color

\* C17: with a target mesh resolved, the engraved decal colour is the panel
\* colour times the finish's colour multiplier; for raw and corten the
\* multiplier is below 1.0 and every channel of the decal colour is strictly
\* below the panel's; for powder, brushed and painted the multiplier is 1.0.
C17_RawAndCortenStrictlyDarker ==
    frontPanelMesh # NoMesh =>
        \A f \in FinishIds :
            LET base == meshMaterial[frontPanelMesh].color
                mult == FINISH_PRESETS[f].engraved.colorMult
            IN  /\ EngravedColor(f) = MultiplyScalar(base, mult)
                /\ IF f \in {"raw", "corten"}
                   THEN /\ mult < 100
                        /\ \A i \in 1..3 : EngravedColor(f)[i] < base[i]
                   ELSE mult = 100

\* C17 as the code has it: raw is the only finish with a multiplier below
\* 1.0 (0.9): under raw every non-zero channel of the decal colour is
\* strictly below the panel's and a zero channel stays zero; under the other
\* four finishes, corten included, the multiplier is 1.0 and the decal colour
\* equals the panel colour.
C17_OnlyRawDarkens ==
    frontPanelMesh # NoMesh =>
        \A f \in FinishIds :
            LET base == meshMaterial[frontPanelMesh].color
                mult == FINISH_PRESETS[f].engraved.colorMult
            IN  /\ EngravedColor(f) = MultiplyScalar(base, mult)
                /\ IF f = "raw"
                   THEN /\ mult = 90
                        /\ \A i \in 1..3 :
                              /\ base[i] > 0 => EngravedColor(f)[i] < base[i]
                              /\ base[i] = 0 => EngravedColor(f)[i] = 0
                   ELSE /\ mult = 100
                        /\ EngravedColor(f) = base

\* C17 witness: an engraved decal under the raw finish on a panel whose
\* colour has non-zero channels and a zero channel; the shared material
\* carries the darkened colour.
C17_Witness ==
    /\ frontPanelMesh # NoMesh
    /\ decalMesh # NoObject
    /\ currentMode = "engraved"
    /\ currentFinish = "raw"
    /\ LET base == meshMaterial[frontPanelMesh].color
       IN  /\ base[1] > 0 /\ base[3] = 0
           /\ decalMaterial.color = MultiplyScalar(base, 90)
           /\ decalMaterial.color # base

\* the glTF mesh behind a mesh reference of state s
MeshOf(s, mesh) == s.models[mesh[1]][mesh[2]]

\* the placement ray misses the current target mesh
RayMissesTarget ==
    /\ frontPanelMesh # NoMesh
    /\ ~MeshOf(State, frontPanelMesh).hit.hits

\* bounding-box centre plus 50% of the width along X and 25% of the height
\* along Y
OffsetCenter(box) ==
    << (box.min[1] + box.max[1]) \div 2 + (box.max[1] - box.min[1]) \div 2,
       (box.min[2] + box.max[2]) \div 2 + (box.max[2] - box.min[2]) \div 4,
       (box.min[3] + box.max[3]) \div 2 >>

\* the bounding box of the current target mesh
TargetBox == MeshOf(State, frontPanelMesh).box

\* the position of the decal that updateTexture builds in the current state
DecalPosition(sourceCanvas) ==
    LET s == updateTexture(State, sourceCanvas)
    IN  s.decals[s.decalMesh].frame.position

\* updateTexture on a target the ray misses installs exactly one decal, on
\* the target, built by the fallback with identity orientation
FallbackInstallsOne ==
    RayMissesTarget =>
        \A sourceCanvas \in Sources :
            LET s == updateTexture(State, sourceCanvas)
            IN  /\ s.decalMesh # NoObject
                /\ { d \in 1..Len(s.decals) : DecalNode(d) \in s.scene } = {s.decalMesh}
                /\ s.decals[s.decalMesh].target = frontPanelMesh
                /\ s.decals[s.decalMesh].frame.fallback
                /\ s.decals[s.decalMesh].frame.orientation = IdentityEuler

\* decals built by the fallback on meshes with equal bounds have equal frames
FallbackDeterministic ==
    \A d1, d2 \in DOMAIN decals :
        ( /\ decals[d1].frame.fallback
          /\ decals[d2].frame.fallback
          /\ MeshOf(State, decals[d1].target).box = MeshOf(State, decals[d2].target).box )
        => decals[d1].frame = decals[d2].frame

\* C18: when the placement ray misses the target mesh, updateTexture still
\* installs exactly one decal, at position = bounding-box centre plus (50% of
\* the width, 25% of the height, 0) with identity orientation; equal mesh
\* bounds give equal fallback frames.
C18_FallbackAtOffsetCenter ==
    /\ FallbackInstallsOne
    /\ RayMissesTarget =>
          \A sourceCanvas \in Sources :
              DecalPosition(sourceCanvas) = OffsetCenter(TargetBox)
    /\ FallbackDeterministic

\* C18 as the code has it: the fallback position is the offset centre moved
\* along Z by half the depth of the bounding box, that is, onto the front
\* face of the box.
C18_FallbackAtFrontOfBox ==
    /\ FallbackInstallsOne
    /\ RayMissesTarget =>
          \A sourceCanvas \in Sources :
              DecalPosition(sourceCanvas) =
                  Add3(OffsetCenter(TargetBox),
                       <<0, 0, (TargetBox.max[3] - TargetBox.min[3]) \div 2>>)
    /\ FallbackDeterministic

\* C18 witness: two decals built by the fallback are on record, the current
\* one attached to a target the ray misses whose bounding box has depth.
C18_Witness ==
    /\ RayMissesTarget
    /\ decalMesh # NoObject
    /\ decals[decalMesh].frame.fallback
    /\ decals[decalMesh].target = frontPanelMesh
    /\ MeshOf(State, frontPanelMesh).box.max[3] > MeshOf(State, frontPanelMesh).box.min[3]
    /\ \E d \in DOMAIN decals : d # decalMesh /\ decals[d].frame.fallback

\* call c has ended: a path succeeded, or all have failed
Ended(c) == loads[c].status \in {"loaded", "failed"}

\* where each call stands: index is the path requested last (or, after the
\* last failure, the number of paths); a model is installed for exactly the
\* calls that succeeded
AttemptsConsistent ==
    \A c \in DOMAIN loads :
        /\ loads[c].nPaths = 3
        /\ loads[c].status \in {"loading", "loaded", "failed"}
        /\ loads[c].status = "loading" => loads[c].index < loads[c].nPaths /\ c \notin DOMAIN models
        /\ loads[c].status = "loaded"  => loads[c].index < loads[c].nPaths /\ c \in DOMAIN models
        /\ loads[c].status = "failed"  => loads[c].index = loads[c].nPaths /\ c \notin DOMAIN models

\* what one step may do to the calls: a new call requests path 0; the index
\* of a call moves only from i to i+1 while the call is waiting on path i;
\* an ended call never changes again; the step on which a call succeeds
\* installs its model as current model
AttemptsStep ==
    /\ \A c \in DOMAIN loads' \ DOMAIN loads :
          loads'[c].index = 0 /\ loads'[c].status = "loading"
    /\ \A c \in DOMAIN loads :
          /\ c \in DOMAIN loads'
          /\ Ended(c) => loads'[c] = loads[c]
          /\ loads'[c].index # loads[c].index =>
                /\ loads[c].status = "loading"
                /\ loads'[c].index = loads[c].index + 1
                /\ c \notin DOMAIN models'
          /\ (loads[c].status = "loading" /\ loads'[c].status = "loaded") =>
                /\ loads'[c].index = loads[c].index
                /\ currentModel' = c
                /\ c \in DOMAIN models'
                /\ ModelNode(c) \in scene'

\* C19: each loadModel call requests its three candidate paths strictly in
\* order, path i+1 only on the failure of path i and none after a success,
\* and, if every request eventually calls back, every call eventually ends,
\* either with its model installed as current model by the first succeeding
\* path, or with all three paths failed and no model installed.
C19_OrderedAttemptsEnd ==
    /\ []AttemptsConsistent
    /\ [][AttemptsStep]_vars
    /\ \A c \in 1..MaxLoads :
          (c \in DOMAIN loads /\ loads[c].status = "loading")
              ~> (c \in DOMAIN loads /\ Ended(c))

\* C19 witness: one call has succeeded on its second path after the first
\* failed, and another call has failed on all three.
C19_Witness ==
    \E c1, c2 \in DOMAIN loads :
        /\ loads[c1].status = "loaded" /\ loads[c1].index = 1
        /\ currentModel = c1
        /\ loads[c2].status = "failed" /\ loads[c2].index = 3

\* the positions, in traversal order, of the meshes of gltf whose name
\* contains 'Front', 'Panel' or 'Body'
NamedMeshes(gltf) ==
    { i \in 1..Len(gltf) :
        \/ Includes(gltf[i].name, <<"F", "r", "o", "n", "t">>)
        \/ Includes(gltf[i].name, <<"P", "a", "n", "e", "l">>)
        \/ Includes(gltf[i].name, <<"B", "o", "d", "y">>) }

\* the least member of a non-empty set of positions
First(S) == CHOOSE i \in S : \A j \in S : i <= j

-----------------------------------------------------------------------------
(* Consistency of decal, panel and page state *)

\* C21: whenever a decal is attached to the scene, the target mesh and the
\* active texture are non-null and the shared decal material is exactly what
\* applying the current mode and the current finish to the active texture
\* gives: no attached decal shows a stale mode, finish or texture.
C21_AttachedDecalIsCurrent ==
    \A d \in DecalsInScene :
        /\ frontPanelMesh # NoMesh
        /\ activeTexture # NoObject
        /\ decalMaterial = applyMaterialMode(State, activeTexture).decalMaterial

\* the loaded model roots attached to the scene
ModelsInScene == { m \in DOMAIN models : ModelNode(m) \in scene }

\* every request of every loadModel call so far has called back
AllCallbacksRun == \A c \in DOMAIN loads : Ended(c)

\* C22: once every callback has run, at most one loaded model root is
\* attached to the scene, an attached root is the current model and belongs
\* to the most recent loadModel call, and the target mesh, when non-null, is
\* a mesh of the current model.
C22_OneModelAfterOverlap ==
    AllCallbacksRun =>
        /\ Cardinality(ModelsInScene) <= 1
        /\ \A m \in ModelsInScene : m = currentModel /\ m = Len(loads)
        /\ frontPanelMesh # NoMesh =>
              /\ frontPanelMesh[1] = currentModel
              /\ frontPanelMesh[1] \in ModelsInScene

\* C23: whenever a target mesh is resolved, the roughness and metalness of
\* its material are the base parameters of the current finish, also when the
\* finish was selected while the model was loading or before a reload.
C23_PanelCarriesCurrentFinish ==
    frontPanelMesh # NoMesh =>
        /\ meshMaterial[frontPanelMesh].roughness
              = FINISH_PRESETS[currentFinish].base.roughness
        /\ meshMaterial[frontPanelMesh].metalness
              = FINISH_PRESETS[currentFinish].base.metalness

\* the page's state after a whole Reset Customization click
resetClicked(p) == checkCustomizationFee(resetCustomization(p))

\* the page's state after the remaining callbacks of pending upload u
uploadCompletes(p, u) ==
    checkCustomizationFee(
        imgOnload(IF p.uploads[u] = "reading" THEN readerOnload(p, u) ELSE p, u))

\* C24: a Reset Customization click clears the uploaded image and, the text
\* being empty, the fee; typing text afterwards does not bring an image
\* back; and when the callbacks of an upload started before the click fire
\* after it, the image is still cleared and the fee still 0.
C24_ResetStaysCleared ==
    ListenersSetUp =>
        LET p1 == resetClicked(Page)
        IN  /\ p1.currentUploadedImage = NoObject
            /\ p1.state.customizationFee = 0
            /\ \A value \in TextValues :
                  checkCustomizationFee(textInputTyped(p1, value)).currentUploadedImage
                      = NoObject
            /\ \A u \in DOMAIN uploads :
                  uploads[u] # "done" =>
                      /\ uploadCompletes(p1, u).currentUploadedImage = NoObject
                      /\ uploadCompletes(p1, u).state.customizationFee = 0

\* the configuration of a cart entry
ConfigOf(item) == <<item.model, item.size, item.text, item.hasCustomization>>

\* every entry has a quantity of at least 1 and no two entries share a
\* configuration
CartWellFormed(cart) ==
    /\ \A i \in 1..Len(cart) : cart[i].qty >= 1
    /\ \A i, j \in 1..Len(cart) : i # j => ConfigOf(cart[i]) # ConfigOf(cart[j])

\* the page with the given selection, text and fee
Selecting(model, size, text, fee) ==
    [Page EXCEPT !.state.model = model, !.state.size = size,
                 !.state.customizationFee = fee, !.textInput = text]

\* C25: the cart always has quantities >= 1 and pairwise different
\* configurations, and addToCart, updateQty and removeItem keep it so;
\* addToCart under a configuration the cart already holds adds one to that
\* entry's quantity and changes nothing else, and under a new configuration
\* it appends one entry of quantity 1.
C25_CartEntriesUnique ==
    /\ CartWellFormed(state.cart)
    /\ \A model \in ModelKeys, size \in Sizes, text \in TextValues,
          fee \in {0, CUSTOMIZATION_COST} :
          LET cart == state.cart
              after == addToCart(Selecting(model, size, text, fee)).state.cart
              present == { i \in 1..Len(cart) :
                             ConfigOf(cart[i]) = <<model, size, text, fee > 0>> }
          IN  /\ CartWellFormed(after)
              /\ present # {} =>
                    /\ Len(after) = Len(cart)
                    /\ \A i \in 1..Len(cart) :
                          after[i] = IF i \in present
                                     THEN [cart[i] EXCEPT !.qty = @ + 1]
                                     ELSE cart[i]
              /\ present = {} =>
                    /\ Len(after) = Len(cart) + 1
                    /\ SubSeq(after, 1, Len(cart)) = cart
                    /\ ConfigOf(after[Len(after)]) = <<model, size, text, fee > 0>>
                    /\ after[Len(after)].qty = 1
    /\ \A index \in 0..(Len(state.cart) - 1) :
          /\ \A delta \in {-2, -1, 1} :
                CartWellFormed(updateQty(Page, index, delta).state.cart)
          /\ CartWellFormed(removeItem(Page, index).state.cart)

\* C25 witness: the cart holds two entries with the same model, size and
\* text that differ in the customization flag, one of them added twice.
C25_Witness ==
    /\ Len(state.cart) = 2
    /\ state.cart[1].text = state.cart[2].text
    /\ state.cart[1].hasCustomization # state.cart[2].hasCustomization
    /\ \E i \in 1..2 : state.cart[i].qty = 2

====
